---- MODULE Spec2Model ----
(***************************************************************************)
(* SNANA_FITS_to_pd.py: read_fits (photometry + header tables to two       *)
(* normalised data frames) and the module-level driver loop that converts  *)
(* every *PHOT.FITS* file of a directory to two CSV files.                 *)
(*                                                                         *)
(* A data frame is a sequence of rows; a row keeps its pandas index label  *)
(* (idx) so that a row can be followed through drops and filters.  Only    *)
(* the columns the control flow reads are kept: MJD and the band column of *)
(* the photometry table, SNID of the header table.                         *)
(***************************************************************************)
EXTENDS Integers, Sequences, FiniteSets, TLC

\* ------------------------------------------------------------- bounds
MaxLen == 5
MaxHead == 2
MaxRuns == 3

\* ---------------------------------------------------------- constants
\* The MJD of a separator row.
SENTINEL == -777

\* Raw SNID values found in header files: SNANA writes the SNID column as
\* blank-padded text, one character per element here.
RawSNIDs == {<<"0">>, <<"5", " ">>, <<"1", "3">>}

\* Band codes found in photometry files: two of the known vocabulary, an
\* unknown code and the dash SNANA writes in separator rows.
SentinelBands == {"- ", "u "}
ObsBands == {"g ", "X "}

VARIABLES
    \* ---- read_fits
    phot_file,        \* rows of the PHOT table on disk
    head_file,        \* [exists, SNID]: the paired HEAD table on disk
    drop_separators,  \* the flag argument
    rpc,              \* position inside read_fits
    df_phot,          \* the photometry frame being transformed
    df_header,        \* the header frame (its SNID / object_id column)
    head_opened,      \* whether Table.read was called on the HEAD file
    filter_in,        \* the frame that entered the band filter
    \* ---- driver
    fits_dir,         \* file name -> content, the input directory
    output_dir,       \* path -> content, the output directory
    fits_paths,       \* the paths listed for the current run
    i,                \* position of the loop in fits_paths
    pc,               \* position of the driver
    run,              \* number of runs started
    reads,            \* paths read_fits was invoked on in the current run
    opened,           \* input files opened in the current run
    writes,           \* output paths written in the current run
    out_at_start,     \* output_dir when the current run started
    all_existed,      \* both outputs of every listed file existed at start
    prev_done,        \* the previous run went through the whole list
    written_both,     \* paths whose two to_csv calls both completed
    aborted_mid       \* [path, run]: aborted between the two to_csv calls

read_vars == <<phot_file, head_file, drop_separators, rpc, df_phot,
               df_header, head_opened, filter_in>>
driver_vars == <<fits_dir, output_dir, fits_paths, i, pc, run, reads, opened,
                 writes, out_at_start, all_existed, prev_done, written_both,
                 aborted_mid>>
vars == <<read_vars, driver_vars>>

\* ------------------------------------------------------------ helpers
Range(s) == {s[k] : k \in 1..Len(s)}

SeqsUpTo(S, n) == UNION {[1..k -> S] : k \in 0..n}

\* A table as Table.read(...).to_pandas() gives it: a RangeIndex 0..n-1.
WithIndex(rows) == [k \in 1..Len(rows) |-> [idx |-> k - 1, MJD |-> rows[k].MJD, FLT |-> rows[k].FLT]]

\* A separator row and an observation with band code b.
Sep(b) == [MJD |-> SENTINEL, FLT |-> b]
Obs(b) == [MJD |-> 59000, FLT |-> b]

RowKinds == {Sep(b) : b \in SentinelBands} \cup {Obs(b) : b \in ObsBands}

\* astype(np.int32) of a text column: int() of each value, which skips the
\* surrounding blanks and reads the decimal digits.
DigitValue ==
    ("0" :> 0) @@ ("1" :> 1) @@ ("2" :> 2) @@ ("3" :> 3) @@ ("4" :> 4) @@
    ("5" :> 5) @@ ("6" :> 6) @@ ("7" :> 7) @@ ("8" :> 8) @@ ("9" :> 9)

RECURSIVE DigitsValue(_, _)
DigitsValue(s, acc) ==
    IF Len(s) = 0 THEN acc
    ELSE DigitsValue(Tail(s), 10 * acc + DigitValue[Head(s)])

ToInt32(s) ==
    LET NotBlank(c) == c # " "
    IN  DigitsValue(SelectSeq(s, NotBlank), 0)

\* --------------------------------------------------------- read_fits
\* df.empty
Empty(df) == Len(df) = 0

\* df.drop(df.index[-1])
DropLast(df) == SubSeq(df, 1, Len(df) - 1)

\* Lines 31-34.  ok = FALSE: values[0] of an empty column (IndexError).
Trim(df) ==
    LET d1 == IF df[Len(df)].MJD = SENTINEL THEN DropLast(df) ELSE df
    IN  IF Len(d1) = 0
        THEN [ok |-> FALSE, df |-> d1]
        ELSE [ok |-> TRUE,
              df |-> IF d1[1].MJD = SENTINEL THEN Tail(d1) ELSE d1]

\* Line 44: np.where(MJD == -777.0)[0], 0-based positions in ascending order.
SentinelPositions(df) ==
    LET IsSep(p) == df[p + 1].MJD = SENTINEL
    IN  SelectSeq([k \in 1..Len(df) |-> k - 1], IsSep)

\* Line 45 without the closing boundary len(df_phot).
BoundariesNoEnd(df) == <<0>> \o SentinelPositions(df)

\* Line 45: np.hstack(([0], arr_idx, [len(df_phot)])).
Boundaries(df) == <<0>> \o SentinelPositions(df) \o <<Len(df)>>

\* Line 50: SNID.iloc[counter - 1]; FALSE when out of bounds (IndexError).
InBounds(counter, SNID) == counter - 1 < Len(SNID)

\* Line 50 reading SNID.iloc[counter] where it can.
HeaderKeyOffByOne(counter, SNID) == SNID[IF counter < Len(SNID) THEN counter + 1 ELSE counter]

\* Line 50: SNID.iloc[counter - 1], position counter of the 1-based sequence.
HeaderKey(counter, SNID) == SNID[counter]

\* Lines 47-50: the loop over range(1, len(arr_idx)); arr_ID[p] is the
\* element at 0-based position p - 1.
RECURSIVE FillIDs(_, _, _, _)
FillIDs(counter, arr_ID, arr_idx, SNID) ==
    IF counter > Len(arr_idx) - 1
    THEN [ok |-> TRUE, arr_ID |-> arr_ID]
    ELSE IF ~InBounds(counter, SNID)
    THEN [ok |-> FALSE, arr_ID |-> arr_ID]
    ELSE LET start == arr_idx[counter]
             end == arr_idx[counter + 1]
         IN  FillIDs(counter + 1,
                     [p \in 1..Len(arr_ID) |->
                        IF start <= p - 1 /\ p - 1 < end
                        THEN HeaderKey(counter, SNID) ELSE arr_ID[p]],
                     arr_idx, SNID)

\* Lines 42-51 with a check of the block count against the header in front.
SegmentValidating(df, SNID) ==
    LET filled == FillIDs(1, [p \in 1..Len(df) |-> 0], Boundaries(df), SNID)
    IN  IF Len(Boundaries(df)) - 1 # Len(SNID)
        THEN [ok |-> FALSE, df |-> df]
        ELSE [ok |-> filled.ok,
              df |-> [p \in 1..Len(df) |->
                        [idx |-> df[p].idx, SNID |-> filled.arr_ID[p],
                         MJD |-> df[p].MJD, FLT |-> df[p].FLT]]]

\* Lines 42-51: arr_ID starts as zeros and becomes the SNID column.
Segment(df, SNID) ==
    LET filled == FillIDs(1, [p \in 1..Len(df) |-> 0], Boundaries(df), SNID)
    IN  [ok |-> filled.ok,
         df |-> [p \in 1..Len(df) |->
                   [idx |-> df[p].idx, SNID |-> filled.arr_ID[p],
                    MJD |-> df[p].MJD, FLT |-> df[p].FLT]]]

\* Line 54.
DropSeparators(df) ==
    LET Keep(r) == r.MJD # SENTINEL
    IN  SelectSeq(df, Keep)

\* Line 63.
passband_dict ==
    ("u " :> 0) @@ ("g " :> 1) @@ ("r " :> 2) @@ ("i " :> 3) @@ ("z " :> 4) @@ ("Y " :> 5)

\* Lines 58, 62: column selection and renaming.
Rename(df) ==
    [p \in 1..Len(df) |->
        [idx |-> df[p].idx, object_id |-> df[p].SNID, mjd |-> df[p].MJD,
         passband |-> df[p].FLT]]

\* Lines 65-66 without the isin selection.
BandFilterKeepAll(df) ==
    [p \in 1..Len(df) |->
        [df[p] EXCEPT !.passband =
            IF @ \in DOMAIN passband_dict THEN passband_dict[@] ELSE @]]

\* Lines 65-66 with the codes numbered from 1.
BandFilterShifted(df) ==
    LET Known(r) == r.passband \in DOMAIN passband_dict
        kept == SelectSeq(df, Known)
    IN  [p \in 1..Len(kept) |->
            [kept[p] EXCEPT !.passband = passband_dict[@] + 1]]

\* Lines 65-66: isin, then replace.
BandFilter(df) ==
    LET Known(r) == r.passband \in DOMAIN passband_dict
        kept == SelectSeq(df, Known)
    IN  [p \in 1..Len(kept) |->
            [kept[p] EXCEPT !.passband = passband_dict[@]]]

\* Lines 27-29 without the early return.
ReturnsEarlyNever(df) == FALSE

\* Lines 27-29: whether read_fits returns (df_phot, df_phot) at once.
ReturnsEarly(df) == Empty(df)

\* read_fits as one call (drop_separators given): the status, the two
\* frames returned and whether the HEAD file was opened.
read_fits(phot, head, drop) ==
    LET df0 == WithIndex(phot)
        none == [status |-> "raised", metadata |-> <<>>, lcdata |-> <<>>,
                 head_opened |-> FALSE]
    IN  IF ReturnsEarly(df0)
        THEN [status |-> "returned", metadata |-> df0, lcdata |-> df0,
              head_opened |-> FALSE]
        ELSE IF Len(df0) = 0 \/ ~Trim(df0).ok
        THEN none
        ELSE IF ~head.exists
        THEN [none EXCEPT !.head_opened = TRUE]
        ELSE LET hdr == [k \in 1..Len(head.SNID) |-> ToInt32(head.SNID[k])]
                 seg == Segment(Trim(df0).df, hdr)
                 d3 == IF drop THEN DropSeparators(seg.df) ELSE seg.df
             IN  IF ~seg.ok
                 THEN [none EXCEPT !.head_opened = TRUE]
                 ELSE [status |-> "returned", metadata |-> hdr,
                       lcdata |-> BandFilter(Rename(d3)),
                       head_opened |-> TRUE]

\* ---- read_fits step by step
DriverIdle ==
    /\ fits_dir = <<>>
    /\ output_dir = <<>>
    /\ fits_paths = <<>>
    /\ i = 0
    /\ pc = "off"
    /\ run = 0
    /\ reads = {}
    /\ opened = {}
    /\ writes = {}
    /\ out_at_start = <<>>
    /\ all_existed = FALSE
    /\ prev_done = FALSE
    /\ written_both = {}
    /\ aborted_mid = {}

InitRead ==
    /\ phot_file \in SeqsUpTo(RowKinds, MaxLen)
    /\ head_file \in {[exists |-> TRUE, SNID |-> s] : s \in SeqsUpTo(RawSNIDs, MaxHead)}
                     \cup {[exists |-> FALSE, SNID |-> <<>>]}
    /\ drop_separators \in BOOLEAN
    /\ rpc = "load_phot"
    /\ df_phot = <<>>
    /\ df_header = <<>>
    /\ head_opened = FALSE
    /\ filter_in = <<>>
    /\ DriverIdle

\* Lines 25-29.
LoadPhot ==
    /\ rpc = "load_phot"
    /\ df_phot' = WithIndex(phot_file)
    /\ rpc' = IF ReturnsEarly(WithIndex(phot_file)) THEN "returned_empty"
              ELSE "failsafe"
    /\ UNCHANGED <<phot_file, head_file, drop_separators, df_header,
                   head_opened, filter_in, driver_vars>>

\* Lines 30-34.
Failsafe ==
    /\ rpc = "failsafe"
    /\ IF Len(df_phot) = 0
       THEN /\ rpc' = "raised_failsafe"
            /\ df_phot' = df_phot
       ELSE /\ df_phot' = Trim(df_phot).df
            /\ rpc' = IF Trim(df_phot).ok THEN "load_header" ELSE "raised_failsafe"
    /\ UNCHANGED <<phot_file, head_file, drop_separators, df_header,
                   head_opened, filter_in, driver_vars>>

\* Lines 36-39.
LoadHeader ==
    /\ rpc = "load_header"
    /\ head_opened' = TRUE
    /\ IF head_file.exists
       THEN /\ df_header' = [k \in 1..Len(head_file.SNID) |-> ToInt32(head_file.SNID[k])]
            /\ rpc' = "segment"
       ELSE /\ df_header' = df_header
            /\ rpc' = "raised_load_header"
    /\ UNCHANGED <<phot_file, head_file, drop_separators, df_phot,
                   filter_in, driver_vars>>

\* Lines 41-51.
SegmentStep ==
    /\ rpc = "segment"
    /\ LET seg == Segment(df_phot, df_header)
       IN  IF seg.ok
           THEN /\ df_phot' = seg.df
                /\ rpc' = "drop_separators"
           ELSE /\ df_phot' = df_phot
                /\ rpc' = "raised_segment"
    /\ UNCHANGED <<phot_file, head_file, drop_separators, df_header,
                   head_opened, filter_in, driver_vars>>

\* Lines 53-54.
DropSeparatorsStep ==
    /\ rpc = "drop_separators"
    /\ df_phot' = IF drop_separators THEN DropSeparators(df_phot) ELSE df_phot
    /\ rpc' = "normalise"
    /\ UNCHANGED <<phot_file, head_file, drop_separators, df_header,
                   head_opened, filter_in, driver_vars>>

\* Lines 56-68.
Normalise ==
    /\ rpc = "normalise"
    /\ filter_in' = Rename(df_phot)
    /\ df_phot' = BandFilter(Rename(df_phot))
    /\ rpc' = "returned"
    /\ UNCHANGED <<phot_file, head_file, drop_separators, df_header,
                   head_opened, driver_vars>>

NextRead ==
    \/ LoadPhot
    \/ Failsafe
    \/ LoadHeader
    \/ SegmentStep
    \/ DropSeparatorsStep
    \/ Normalise

SpecRead == InitRead /\ [][NextRead]_vars

\* ------------------------------------------------------------ driver
\* File names and paths are sequences of characters.
S_PHOT == <<"P", "H", "O", "T">>
S_HEAD == <<"H", "E", "A", "D">>
S_FITS == <<".", "F", "I", "T", "S">>
S_gz == <<".", "g", "z">>
S_csv == <<".", "c", "s", "v">>

\* --fits_dir and --output_dir
ArgFitsDir == <<"i", "n">>
ArgOutputDir == <<"o", "u", "t">>

StartsWith(s, old) == Len(s) >= Len(old) /\ SubSeq(s, 1, Len(old)) = old

\* str.replace(old, new): every non-overlapping occurrence, left to right.
RECURSIVE Replace(_, _, _)
Replace(s, old, new) ==
    IF Len(s) = 0 THEN <<>>
    ELSE IF StartsWith(s, old)
    THEN new \o Replace(SubSeq(s, Len(old) + 1, Len(s)), old, new)
    ELSE <<Head(s)>> \o Replace(Tail(s), old, new)

\* sub in s
Contains(s, sub) ==
    \E k \in 1..(Len(s) - Len(sub) + 1) : SubSeq(s, k, k + Len(sub) - 1) = sub

\* os.path.join of a directory and a relative name.
Join(dir, name) == dir \o <<"/">> \o name

\* os.path.basename: what follows the last slash.
Basename(path) ==
    LET slashes == {k \in 1..Len(path) : path[k] = "/"}
        last == IF slashes = {} THEN 0
                ELSE CHOOSE k \in slashes : \A m \in slashes : m <= k
    IN  SubSeq(path, last + 1, Len(path))

\* Line 92: the paths of the entries whose name contains "PHOT.FITS".
Discovered(dir) ==
    {path \in DOMAIN dir : Contains(Basename(path), S_PHOT \o S_FITS)}

\* Line 97.
csv_metadata_path(path) ==
    Join(ArgOutputDir, Replace(Basename(path), S_PHOT \o S_FITS \o S_gz, S_HEAD \o S_csv))

\* Line 98.
csv_lcdata_path(path) ==
    Join(ArgOutputDir, Replace(Basename(path), S_FITS \o S_gz, S_csv))

\* Line 100 testing the photometry CSV path.
ShouldSkipOnLcdata(path, out) == csv_lcdata_path(path) \in DOMAIN out

\* Line 100 testing the input path.
ShouldSkipInputPath(path, out) == path \in DOMAIN out

\* Line 100: os.path.exists(csv_metadata_path).
ShouldSkip(path, out) == csv_metadata_path(path) \in DOMAIN out

\* Line 37: the paired header path.
HeadPath(fname) == Replace(fname, S_PHOT, S_HEAD)

\* Line 103: read_fits(path) against the input directory.
ReadPath(dir, path) ==
    LET hp == HeadPath(path)
        head == IF hp \in DOMAIN dir
                THEN [exists |-> TRUE, SNID |-> dir[hp]]
                ELSE [exists |-> FALSE, SNID |-> <<>>]
    IN  read_fits(dir[path], head, FALSE)

\* The orders os.scandir may list a set of entries in.
Orders(S) == {s \in [1..Cardinality(S) -> S] : Range(s) = S}

\* ---- input directories
PhotSamples ==
    { <<>>,
      <<Sep("- ")>>,
      <<Sep("- "), Obs("g "), Obs("X "), Sep("- "), Obs("g ")>> }

HeadSample == <<<<"5", " ">>, <<"1", "3">>>>

NoFiles == <<>>

\* A batch: absent, or its PHOT file with or without its HEAD file.
BatchChoices(batch, ext) ==
    LET phot == Join(ArgFitsDir, batch \o <<"_">> \o S_PHOT \o S_FITS \o ext)
        head == Join(ArgFitsDir, batch \o <<"_">> \o S_HEAD \o S_FITS \o ext)
    IN  {NoFiles}
        \cup {(phot :> rows) : rows \in PhotSamples}
        \cup {(phot :> rows) @@ (head :> HeadSample) : rows \in PhotSamples}

ReadIdle ==
    /\ phot_file = <<>>
    /\ head_file = [exists |-> FALSE, SNID |-> <<>>]
    /\ drop_separators = FALSE
    /\ rpc = "off"
    /\ df_phot = <<>>
    /\ df_header = <<>>
    /\ head_opened = FALSE
    /\ filter_in = <<>>

Init ==
    /\ \E a \in BatchChoices(<<"a">>, S_gz), b \in BatchChoices(<<"b">>, <<>>),
          c \in BatchChoices(<<"c">>, S_gz) :
          fits_dir = a @@ b @@ c
    /\ output_dir = NoFiles
    /\ fits_paths = <<>>
    /\ i = 0
    /\ pc = "idle"
    /\ run = 0
    /\ reads = {}
    /\ opened = {}
    /\ writes = {}
    /\ out_at_start = NoFiles
    /\ all_existed = FALSE
    /\ prev_done = FALSE
    /\ written_both = {}
    /\ aborted_mid = {}
    /\ ReadIdle

\* Lines 87-94: a run of the script starts and lists the input directory.
StartRun ==
    /\ pc \in {"idle", "done", "aborted"}
    /\ run < MaxRuns
    /\ fits_paths' \in Orders(Discovered(fits_dir))
    /\ i' = 1
    /\ pc' = "loop"
    /\ run' = run + 1
    /\ reads' = {}
    /\ opened' = {}
    /\ writes' = {}
    /\ out_at_start' = output_dir
    /\ all_existed' = \A path \in Discovered(fits_dir) :
                          /\ csv_metadata_path(path) \in DOMAIN output_dir
                          /\ csv_lcdata_path(path) \in DOMAIN output_dir
    /\ prev_done' = (pc = "done")
    /\ UNCHANGED <<fits_dir, output_dir, written_both, aborted_mid, read_vars>>

\* to_csv: the file at path now holds the table (overwriting what was there).
WriteCsv(out, path, kind, src, table) ==
    [q \in DOMAIN out \cup {path} |->
        IF q = path THEN [kind |-> kind, src |-> src, table |-> table] ELSE out[q]]

\* Lines 97-106: one iteration, up to and including the header to_csv.
LoopBody ==
    /\ pc = "loop"
    /\ i <= Len(fits_paths)
    /\ LET path == fits_paths[i]
           r == ReadPath(fits_dir, path)
       IN  IF ShouldSkip(path, output_dir)
           THEN /\ i' = i + 1
                /\ UNCHANGED <<pc, output_dir, reads, opened, writes>>
           ELSE /\ reads' = reads \cup {path}
                /\ opened' = opened \cup {path}
                               \cup (IF r.head_opened THEN {HeadPath(path)} ELSE {})
                /\ IF r.status = "raised"
                   THEN /\ pc' = "aborted"
                        /\ UNCHANGED <<i, output_dir, writes>>
                   ELSE IF Empty(r.metadata)
                   THEN /\ i' = i + 1
                        /\ UNCHANGED <<pc, output_dir, writes>>
                   ELSE /\ output_dir' = WriteCsv(output_dir, csv_metadata_path(path),
                                                  "metadata", path, r.metadata)
                        /\ writes' = writes \cup {csv_metadata_path(path)}
                        /\ pc' = "wrote_metadata"
                        /\ i' = i
    /\ UNCHANGED <<fits_dir, fits_paths, run, out_at_start, all_existed,
                   prev_done, written_both, aborted_mid, read_vars>>

\* Line 107: the photometry to_csv, which ends the iteration.
WriteLcdata ==
    /\ pc = "wrote_metadata"
    /\ LET path == fits_paths[i]
       IN  /\ output_dir' = WriteCsv(output_dir, csv_lcdata_path(path), "lcdata",
                                     path, ReadPath(fits_dir, path).lcdata)
           /\ writes' = writes \cup {csv_lcdata_path(path)}
           /\ written_both' = written_both \cup {path}
    /\ i' = i + 1
    /\ pc' = "loop"
    /\ UNCHANGED <<fits_dir, fits_paths, run, reads, opened, out_at_start,
                   all_existed, prev_done, aborted_mid, read_vars>>

\* The run ends between lines 106 and 107: the second to_csv fails before
\* creating its file, or the process is killed.
AbortBetweenWrites ==
    /\ pc = "wrote_metadata"
    /\ pc' = "aborted"
    /\ aborted_mid' = aborted_mid \cup {[path |-> fits_paths[i], run |-> run]}
    /\ UNCHANGED <<fits_dir, output_dir, fits_paths, i, run, reads, opened,
                   writes, out_at_start, all_existed, prev_done, written_both,
                   read_vars>>

\* The for loop is exhausted.
Finish ==
    /\ pc = "loop"
    /\ i > Len(fits_paths)
    /\ pc' = "done"
    /\ UNCHANGED <<fits_dir, output_dir, fits_paths, i, run, reads, opened,
                   writes, out_at_start, all_existed, prev_done, written_both,
                   aborted_mid, read_vars>>

Next ==
    \/ StartRun
    \/ LoopBody
    \/ WriteLcdata
    \/ AbortBetweenWrites
    \/ Finish

Spec == Init /\ [][Next]_vars

\* ---------------------------------------------------- driver: claims
\* <batch> of a discovered file name: what precedes "_PHOT.FITS".
BatchOf(name) ==
    LET mark == <<"_">> \o S_PHOT \o S_FITS
        k == CHOOSE j \in 1..Len(name) : SubSeq(name, j, j + Len(mark) - 1) = mark
    IN  SubSeq(name, 1, k - 1)

NamedHeadCsv(path) == Join(ArgOutputDir, BatchOf(Basename(path)) \o <<"_">> \o S_HEAD \o S_csv)

NamedPhotCsv(path) == Join(ArgOutputDir, BatchOf(Basename(path)) \o <<"_">> \o S_PHOT \o S_csv)

Holds(out, path, kind, src) ==
    path \in DOMAIN out /\ out[path].kind = kind /\ out[path].src = src

\* C2: once both tables of a discovered file (<batch>_PHOT.FITS or
\* <batch>_PHOT.FITS.gz) are written, <batch>_HEAD.csv holds its header table
\* and <batch>_PHOT.csv its photometry table, the two computed paths being
\* distinct.
C2_OutputNaming ==
    \A path \in written_both :
        /\ Holds(output_dir, NamedHeadCsv(path), "metadata", path)
        /\ Holds(output_dir, NamedPhotCsv(path), "lcdata", path)
        /\ csv_metadata_path(path) # csv_lcdata_path(path)

\* C3: a run that starts with both outputs of every listed file in place
\* invokes read_fits on nothing, writes nothing and leaves the output
\* directory as it found it; and a run that follows a run which went through
\* its whole list leaves the output directory as that run left it.
C3_Idempotence ==
    /\ (pc \in {"loop", "wrote_metadata", "done", "aborted"} /\ all_existed) =>
          /\ reads = {}
          /\ opened = {}
          /\ writes = {}
          /\ output_dir = out_at_start
          /\ pc \in {"loop", "done"}
    /\ (pc \in {"loop", "wrote_metadata", "done", "aborted"} /\ prev_done) =>
          /\ writes = {}
          /\ output_dir = out_at_start

C3_Witness ==
    /\ run = 2
    /\ pc = "done"
    /\ all_existed
    /\ prev_done
    /\ Len(fits_paths) >= 2
    /\ \E path \in Range(fits_paths) : Basename(path) = <<"b", "_">> \o S_PHOT \o S_FITS

\* C4: when read_fits is invoked on a photometry file of zero rows it returns
\* without raising and without opening the paired header file, and the
\* driver writes nothing for the batch and moves on to the next listed file.
C4_EmptyBatch ==
    [][(/\ pc = "loop"
        /\ i <= Len(fits_paths)
        /\ fits_paths[i] \notin reads
        /\ fits_paths[i] \in reads'
        /\ fits_dir[fits_paths[i]] = <<>>)
       => (/\ output_dir' = output_dir
           /\ writes' = writes
           /\ opened' = opened \cup {fits_paths[i]}
           /\ pc' = "loop"
           /\ i' = i + 1)]_vars

C4_Witness ==
    /\ run = 1
    /\ Len(fits_paths) = 3
    /\ fits_dir[fits_paths[2]] = <<>>
    /\ HeadPath(fits_paths[2]) \in DOMAIN fits_dir
    /\ reads = Range(fits_paths)
    /\ written_both = {fits_paths[1], fits_paths[3]}
    /\ pc = "done"

\* C10: once a run has ended between the header to_csv and the photometry
\* to_csv of a batch, no later run invokes read_fits on that batch and no
\* file of the output directory ever holds that batch's photometry table.
C10_NeverResumed ==
    \A a \in aborted_mid :
        /\ run > a.run => a.path \notin reads
        /\ \A q \in DOMAIN output_dir :
              ~(output_dir[q].kind = "lcdata" /\ output_dir[q].src = a.path)
        /\ Holds(output_dir, csv_metadata_path(a.path), "metadata", a.path)

C10_Witness ==
    \E a \in aborted_mid :
        /\ a.run = 1
        /\ run = 3
        /\ pc = "done"
        /\ a.path \in Range(fits_paths)
        /\ Basename(a.path) = <<"a", "_">> \o S_PHOT \o S_FITS \o S_gz

\* ------------------------------------------------- read_fits: claims
SixCodes == {"u ", "g ", "r ", "i ", "z ", "Y "}

ExpectedCode(b) ==
    CASE b = "u " -> 0 [] b = "g " -> 1 [] b = "r " -> 2
      [] b = "i " -> 3 [] b = "z " -> 4 [] b = "Y " -> 5

NumSentinels(df) == Cardinality({p \in 1..Len(df) : df[p].MJD = SENTINEL})

NumBlocks(df) == NumSentinels(df) + 1

\* The sentinel-delimited block (counted from 1) the row at position p lies in.
BlockOf(df, p) == 1 + Cardinality({q \in 1..(p - 1) : df[q].MJD = SENTINEL})

AfterSegment == rpc \in {"drop_separators", "raised_segment"}

\* C1: when the trimmed stream holds exactly (header rows - 1) sentinel rows,
\* the segmentation completes and every non-sentinel row of the k-th
\* sentinel-delimited block carries the key of the k-th header row.
C1_Segmentation ==
    (AfterSegment /\ NumSentinels(df_phot) = Len(df_header) - 1) =>
        /\ rpc = "drop_separators"
        /\ \A p \in 1..Len(df_phot) :
              df_phot[p].MJD # SENTINEL =>
                  df_phot[p].SNID = df_header[BlockOf(df_phot, p)]

\* The scenario [S, t1, t2, S, t3] with keys [A, B].
C1_Witness ==
    /\ rpc = "drop_separators"
    /\ Len(phot_file) = 5
    /\ [k \in 1..5 |-> phot_file[k].MJD = SENTINEL] = <<TRUE, FALSE, FALSE, TRUE, FALSE>>
    /\ Len(df_header) = 2
    /\ df_header[1] # df_header[2]
    /\ [k \in 1..Len(df_phot) |-> df_phot[k].SNID]
         = <<df_header[1], df_header[1], df_header[2], df_header[2]>>

\* What lines 31-34 are said to do to a non-empty frame.
ExpectedTrim(df) ==
    LET d1 == IF df[Len(df)].MJD = SENTINEL THEN SubSeq(df, 1, Len(df) - 1) ELSE df
    IN  IF Len(d1) > 0 /\ d1[1].MJD = SENTINEL THEN SubSeq(d1, 2, Len(d1)) ELSE d1

\* C5: for every non-empty raw stream the trimming step completes, having
\* removed the last row iff it is a sentinel and then the first remaining row
\* iff it is a sentinel, all other rows kept in order.
C5_TrimmingCompletes ==
    (Len(phot_file) >= 1 /\ rpc \in {"load_header", "raised_failsafe"}) =>
        /\ rpc = "load_header"
        /\ df_phot = ExpectedTrim(WithIndex(phot_file))

\* C6 as stated: with drop_separators = False no row of the returned
\* photometry table has mjd = -777.0, whatever the band of the sentinel rows.
C6_NoSentinelInOutput ==
    (rpc = "returned" /\ ~drop_separators) =>
        \A p \in 1..Len(df_phot) : df_phot[p].mjd # SENTINEL

\* C6 amended: with drop_separators = False the returned photometry table
\* holds a raw row with mjd = -777.0 exactly when that row is neither the
\* first nor the last row of the raw stream and its band is one of the six
\* known codes; every other sentinel row is absent from the output.
C6_SentinelOnlyWithKnownBand ==
    (rpc = "returned" /\ ~drop_separators) =>
        \A k \in 1..Len(phot_file) :
            phot_file[k].MJD = SENTINEL =>
                ((\E p \in 1..Len(df_phot) : df_phot[p].idx = k - 1)
                 <=> (/\ k \notin {1, Len(phot_file)}
                      /\ phot_file[k].FLT \in SixCodes))

C6_Witness ==
    /\ rpc = "returned"
    /\ ~drop_separators
    /\ Len(df_phot) >= 2
    /\ \E k \in 2..(Len(phot_file) - 1) :
          /\ phot_file[k].MJD = SENTINEL
          /\ phot_file[k].FLT \notin SixCodes
          /\ \A p \in 1..Len(df_phot) : df_phot[p].idx # k - 1

\* C7: every returned row has passband in 0..5, the image of its raw band
\* code under u->0, g->1, r->2, i->3, z->4, Y->5; a row entering the filter is
\* dropped iff its code is none of the six, so the number of dropped rows is
\* the number of unrecognised codes, and the survivors keep their order.
C7_BandFiltering ==
    rpc = "returned" =>
        /\ \A p \in 1..Len(df_phot) : df_phot[p].passband \in 0..5
        /\ \A q \in 1..Len(filter_in) :
              (\E p \in 1..Len(df_phot) : df_phot[p].idx = filter_in[q].idx)
              <=> filter_in[q].passband \in SixCodes
        /\ \A p \in 1..Len(df_phot) :
              \E q \in 1..Len(filter_in) :
                  /\ filter_in[q].idx = df_phot[p].idx
                  /\ df_phot[p].passband = ExpectedCode(filter_in[q].passband)
                  /\ df_phot[p].mjd = filter_in[q].mjd
                  /\ df_phot[p].object_id = filter_in[q].object_id
        /\ \A p \in 1..(Len(df_phot) - 1) : df_phot[p].idx < df_phot[p + 1].idx
        /\ Len(filter_in) - Len(df_phot)
             = Cardinality({q \in 1..Len(filter_in) : filter_in[q].passband \notin SixCodes})

C7_Witness ==
    /\ rpc = "returned"
    /\ Len(filter_in) - Len(df_phot) >= 2
    /\ \E p, q \in 1..Len(df_phot) : df_phot[p].passband = 0 /\ df_phot[q].passband = 1

UniqueKeys(SNID) == \A a, b \in 1..Len(SNID) : SNID[a] = SNID[b] => a = b

\* C8: with unique header keys, once the segmentation has completed every
\* photometry row carries the key of exactly one header row, in the frame
\* after segmentation and in the returned table; no row keeps the initial 0
\* of the accumulator unless 0 is a header key.
C8_ReferentialIntegrity ==
    /\ (rpc \in {"drop_separators", "normalise"} /\ UniqueKeys(df_header)) =>
          \A p \in 1..Len(df_phot) :
              /\ Cardinality({k \in 1..Len(df_header) : df_header[k] = df_phot[p].SNID}) = 1
              /\ df_phot[p].SNID = 0 => 0 \in Range(df_header)
    /\ (rpc = "returned" /\ UniqueKeys(df_header)) =>
          \A p \in 1..Len(df_phot) :
              /\ Cardinality({k \in 1..Len(df_header) : df_header[k] = df_phot[p].object_id}) = 1
              /\ df_phot[p].object_id = 0 => 0 \in Range(df_header)

C8_Witness ==
    /\ rpc = "returned"
    /\ UniqueKeys(df_header)
    /\ 0 \notin Range(df_header)
    /\ Len(df_header) = 2
    /\ NumSentinels(WithIndex(phot_file)) >= 3
    /\ \E p, q \in 1..Len(df_phot) : df_phot[p].object_id # df_phot[q].object_id

\* C9 as stated: whenever the number of blocks differs from the number of
\* header rows, in either direction, the segmentation raises nothing.
C9_MismatchSilent ==
    (AfterSegment /\ NumBlocks(df_phot) # Len(df_header)) =>
        rpc = "drop_separators"

\* C9 amended: with fewer blocks than header rows read_fits raises nothing and
\* validates nothing, each block taking the key of the header row of the same
\* rank and the surplus header rows being ignored; with more blocks than
\* header rows the segmentation loop raises (the header lookup is out of
\* bounds).
C9_MismatchFewerSilentMoreRaises ==
    /\ (AfterSegment /\ NumBlocks(df_phot) < Len(df_header)) =>
          /\ rpc = "drop_separators"
          /\ \A p \in 1..Len(df_phot) :
                df_phot[p].MJD # SENTINEL =>
                    df_phot[p].SNID = df_header[BlockOf(df_phot, p)]
    /\ (AfterSegment /\ NumBlocks(df_phot) > Len(df_header)) =>
          rpc = "raised_segment"

C9_Witness ==
    /\ rpc = "drop_separators"
    /\ NumBlocks(df_phot) < Len(df_header)
    /\ Len(df_phot) >= 1

====
